---- MODULE Spec2Model ----
(***************************************************************************)
(* Digilib: the download-authorization workflow and the upload             *)
(* classification pipeline of server.js over the schema of                 *)
(* setup-database.js.                                                      *)
(*                                                                         *)
(* Numbers that JavaScript treats as floats (classifier cluster and        *)
(* confidence) are fixed-point integers in hundredths: 78 is 0.78, 500 is  *)
(* 5, 250 is 2.5.  The cluster column of pdfs is INT and holds whole       *)
(* units; the confidence column is FLOAT and holds hundredths or NaN.      *)
(***************************************************************************)
EXTENDS Integers, Sequences, FiniteSets, TLC

VARIABLES
    users,              \* table users: username -> password hash
    session,            \* req.session of the browser: NoSession or [user, role]
    pdfs,               \* table pdfs: id -> row
    nextPdfId,          \* SERIAL sequence of pdfs.id
    download_requests,  \* table download_requests: id -> row
    nextReqId,          \* SERIAL sequence of download_requests.id
    favorites,          \* table favorites: set of <<username, pdf_id>> (UNIQUE)
    recently_viewed,    \* table recently_viewed: sequence of rows
    download_history,   \* table download_history: sequence of rows
    upload_history,     \* table upload_history: sequence of rows
    now,                \* NOW() of the database
    resp,               \* what the last handler answered (and what it was given)
    inflight            \* the handler calls that wait at an await: set of records

vars == <<users, session, pdfs, nextPdfId, download_requests, nextReqId,
          favorites, recently_viewed, download_history, upload_history, now, resp, inflight>>

tables == <<users, pdfs, nextPdfId, download_requests, nextReqId,
            favorites, recently_viewed, download_history, upload_history>>

-----------------------------------------------------------------------------
(* Bounds of the model *)

MaxPdfs == 2
MaxReqs == 2
MaxHist == 1
MaxClock == 1
MaxCalls == 2

-----------------------------------------------------------------------------
(* JavaScript values and the operators the handlers apply to them *)

Num(n) == [t |-> "num", v |-> n]
NaN == [t |-> "nan", v |-> 0]
Undefined == [t |-> "undef", v |-> 0]
Null == [t |-> "null", v |-> 0]
Str == [t |-> "str", v |-> 0]          \* a non-empty, non-numeric string
True == [t |-> "bool", v |-> 1]
False == [t |-> "bool", v |-> 0]

Truthy(x) ==
    CASE x.t = "num" -> x.v # 0
      [] x.t = "bool" -> x.v = 1
      [] x.t = "str" -> TRUE
      [] OTHER -> FALSE

\* a || d
OrElse(a, d) == IF Truthy(a) THEN a ELSE d

ToNumber(x) ==
    CASE x.t = "num" -> x
      [] x.t = "bool" -> Num(100 * x.v)
      [] x.t = "null" -> Num(0)
      [] OTHER -> NaN

MathMin(a, b) ==
    LET x == ToNumber(a)
        y == ToNumber(b)
    IN  IF x.t = "nan" \/ y.t = "nan" THEN NaN
        ELSE IF x.v <= y.v THEN x ELSE y

MathMax(a, b) ==
    LET x == ToNumber(a)
        y == ToNumber(b)
    IN  IF x.t = "nan" \/ y.t = "nan" THEN NaN
        ELSE IF x.v >= y.v THEN x ELSE y

\* mlResult.success === true
StrictTrue(x) == x.t = "bool" /\ x.v = 1

-----------------------------------------------------------------------------
(* Program constants (hundredths) *)

MaxCluster == 500
MinConfidence == 10
MaxConfidence == 100
DefaultConfidence == 50
FallbackConfidence == 78
StatusLen == 20

ClusterNames == <<"BSCS", "BSED-MATH", "BSES", "BSHM", "BTLED-HE", "BEED">>

\* step 6 of /upload: validate ranges
\* mutant: the bound taken from clusterNames.length
ClampClusterMutant(c) == MathMax(Num(0), MathMin(Num(MaxCluster + 100), c))
ClampCluster(c) == MathMax(Num(0), MathMin(Num(MaxCluster), c))

\* mutant: Math.min and Math.max exchanged
ClampConfidenceSwapped(x) == MathMin(Num(MinConfidence), MathMax(Num(MaxConfidence), x))

\* mutant: the confidence kept as a percentage
ClampConfidenceMutant(x) ==
    LET y == MathMax(Num(MinConfidence), MathMin(Num(MaxConfidence), x))
    IN  IF y.t = "num" THEN Num(100 * y.v) ELSE y
ClampConfidence(x) == MathMax(Num(MinConfidence), MathMin(Num(MaxConfidence), x))

-----------------------------------------------------------------------------
(* Sessions and credentials *)

Usernames == {"admin", "testuser"}
Passwords == {"admin123", "user123"}

\* bcrypt.hash / bcrypt.compare: the hash is not the password, and compare
\* succeeds exactly on the password the hash was made from
BcryptHash(p) == <<"$2b$10$", p>>
BcryptCompare(p, h) == h = BcryptHash(p)

NoSession == [user |-> "", role |-> ""]

\* requireLogin: passes iff req.session.user is set
requireLogin == session.user # ""

\* mutant: the role comparison left out
isAdminMutant == session.user # ""

\* isAdmin: passes iff logged in with role admin
isAdmin == session.user # "" /\ session.role = "admin"

\* mutant: the name compared without regard to case
RoleOfMutant(username) == IF username \in {"admin", "Admin"} THEN "admin" ELSE "user"

\* role given at login
RoleOf(username) == IF username = "admin" THEN "admin" ELSE "user"

Redirect(op, to) == [op |-> op, body |-> "redirect", to |-> to]

\* the answer of a route whose middleware turned the request away
Refused(op) == Redirect(op, "/login")

-----------------------------------------------------------------------------
(* The state after setup-database.js has run and the server has started *)

Init ==
    /\ users = [u \in Usernames |->
                  IF u = "admin" THEN BcryptHash("admin123") ELSE BcryptHash("user123")]
    /\ session = NoSession
    /\ pdfs = << >>
    /\ nextPdfId = 1
    /\ download_requests = << >>
    /\ nextReqId = 1
    /\ favorites = {}
    /\ recently_viewed = << >>
    /\ download_history = << >>
    /\ upload_history = << >>
    /\ now = 0
    /\ inflight = {}
    /\ resp = [op |-> "start", body |-> ""]

\* time passes at the database
Tick ==
    /\ now < MaxClock
    /\ now' = now + 1
    /\ UNCHANGED <<tables, session, resp, inflight>>

\* POST /login
Login(username, password, dbOk) ==
    /\ IF ~dbOk
       THEN /\ resp' = [op |-> "login", body |-> "Something went wrong. Please try again."]
            /\ UNCHANGED session
       ELSE IF username \notin DOMAIN users
       THEN /\ resp' = [op |-> "login", body |-> "Invalid username or password"]
            /\ UNCHANGED session
       ELSE IF ~BcryptCompare(password, users[username])
       THEN /\ resp' = [op |-> "login", body |-> "Invalid username or password"]
            /\ UNCHANGED session
       ELSE /\ session' = [user |-> username, role |-> RoleOf(username)]
            /\ resp' = Redirect("login", "/")
    /\ UNCHANGED <<tables, now, inflight>>

\* the names and passwords a visitor can submit to /register
RegisterNames == {"admin", "Admin", "admin ", "mallory"}
RegisterPasswords == {"admin123", "secret1", "short"}

MinPasswordLen == 6

\* POST /register; users.username is UNIQUE
Register(username, password, dbOk) ==
    /\ IF Len(password) < MinPasswordLen
       THEN /\ resp' = [op |-> "register",
                        body |-> "Password must be at least 6 characters long"]
            /\ UNCHANGED users
       ELSE IF ~dbOk \/ username \in DOMAIN users
       THEN /\ resp' = [op |-> "register", body |-> "Username already taken!"]
            /\ UNCHANGED users
       ELSE /\ users' = [u \in DOMAIN users \cup {username} |->
                            IF u = username THEN BcryptHash(password) ELSE users[u]]
            /\ resp' = Redirect("register", "/login")
    /\ UNCHANGED <<session, pdfs, nextPdfId, download_requests, nextReqId, favorites,
                   recently_viewed, download_history, upload_history, now, inflight>>

\* GET /logout
Logout ==
    /\ session' = NoSession
    /\ resp' = Redirect("logout", "/login")
    /\ UNCHANGED <<tables, now, inflight>>

-----------------------------------------------------------------------------
(* POST /upload: the classification pipeline *)

\* what the classifier call can do: the fetch throws (timeout, connection
\* refused), answers a non-2xx status, answers 2xx with a body that is not
\* JSON, with the JSON value null, or with a JSON object
MLFailKinds == {"throw", "status", "badjson"}

SuccessValues == {True, Undefined}
ClusterValues == {Undefined, Str, Num(-100), Num(0), Num(200), Num(250), Num(900)}
ConfidenceValues == {Undefined, Str, Num(-20), Num(0), Num(91), Num(140)}

\* JSON objects: every cluster with one confidence, every confidence with one
\* cluster, and both fields missing, below range and above range together
MLBodies ==
    [success : SuccessValues, cluster : ClusterValues, confidence : {Num(91)}]
    \cup [success : SuccessValues, cluster : {Num(200)}, confidence : ConfidenceValues]
    \cup [success : SuccessValues, cluster : {Undefined}, confidence : {Undefined}]
    \cup [success : SuccessValues, cluster : {Num(-100)}, confidence : {Num(-20)}]
    \cup [success : SuccessValues, cluster : {Num(900)}, confidence : {Num(140)}]

NoBody == [success |-> Undefined, cluster |-> Undefined, confidence |-> Undefined]

MLOutcomes ==
    [kind : MLFailKinds \cup {"jsonnull"}, body : {NoBody}] \cup [kind : {"json"}, body : MLBodies]

\* the statements of the handler that the database can fail
UploadStatements == {"pdfs", "upload_history", "fallback_pdfs"}

\* what one upload is given: every classifier outcome with storage and
\* database working, and every storage and database fault with a classifier
\* that fails and with one that answers
UploadInputs ==
    [ml : MLOutcomes, storageOk : {TRUE}, dbFail : {{}}]
    \cup [ml : {[kind |-> "throw", body |-> NoBody],
                [kind |-> "json", body |-> [success |-> True, cluster |-> Num(200),
                                            confidence |-> Num(91)]]},
          storageOk : BOOLEAN, dbFail : SUBSET UploadStatements]

\* mutant: the failure branches leave mlResult unset
FallbackResultMutant == [null |-> TRUE, success |-> Undefined, cluster |-> Undefined,
                         confidence |-> Undefined]

\* lines 260-280: mlResult after the try/catch around the fetch
FallbackResult == [null |-> FALSE, success |-> False, cluster |-> Num(0),
                   confidence |-> Num(FallbackConfidence)]

MlResultOf(ml) ==
    CASE ml.kind = "json" ->
           [null |-> FALSE, success |-> ml.body.success, cluster |-> ml.body.cluster,
            confidence |-> ml.body.confidence]
      [] ml.kind = "jsonnull" ->
           [null |-> TRUE, success |-> Undefined, cluster |-> Undefined,
            confidence |-> Undefined]
      [] OTHER -> FallbackResult

\* lines 282-299: step 5, get prediction results
Prediction(mlResult) ==
    IF ~mlResult.null /\ Truthy(mlResult.success)
    THEN [cluster |-> OrElse(mlResult.cluster, Num(0)),
          confidence |-> OrElse(mlResult.confidence, Num(DefaultConfidence))]
    ELSE IF ~mlResult.null /\ mlResult.cluster.t # "undef"
    THEN [cluster |-> mlResult.cluster,
          confidence |-> OrElse(mlResult.confidence, Num(DefaultConfidence))]
    ELSE [cluster |-> Num(0), confidence |-> Num(DefaultConfidence)]

\* lines 301-303
Validated(p) == [cluster |-> ClampCluster(p.cluster),
                 confidence |-> ClampConfidence(p.confidence)]

\* line 330: mlResult && mlResult.success === true
ApiUsed(mlResult) ==
    IF mlResult.null THEN Null
    ELSE IF StrictTrue(mlResult.success) THEN True ELSE False

\* an INT column takes a whole number; node-postgres sends 2.5 and NaN as the
\* texts "2.5" and "NaN", which the server refuses for an integer
IntColumnAccepts(x) == x.t = "num" /\ x.v % 100 = 0

PdfRow(cluster, confidence, isPrivate, uploader) ==
    [cluster |-> cluster, confidence |-> confidence, is_private |-> isPrivate,
     uploader |-> uploader]

\* The handler as a function of what it is given: the rows it inserts, in
\* order, and its answer.
UploadRun(ml, storageOk, dbFail, isPrivate, user) ==
    LET mlResult == MlResultOf(ml)
        v == Validated(Prediction(mlResult))
        given == [ml |-> ml, storageOk |-> storageOk, dbFail |-> dbFail]
        \* lines 310-314
        firstOk == storageOk /\ IntColumnAccepts(v.cluster) /\ "pdfs" \notin dbFail
        first == IF firstOk
                 THEN <<PdfRow(v.cluster.v \div 100, v.confidence, isPrivate, user)>>
                 ELSE << >>
        \* lines 316-319
        historyOk == firstOk /\ "upload_history" \notin dbFail
        history == IF historyOk
                   THEN <<[course |-> v.cluster.v \div 100, uploaded_by |-> user]>>
                   ELSE << >>
        \* lines 334-363: the catch block
        caught == ~historyOk
        secondOk == caught /\ "fallback_pdfs" \notin dbFail
        second == IF secondOk
                  THEN <<PdfRow(0, Num(DefaultConfidence), isPrivate, user)>>
                  ELSE << >>
    IN  [docs |-> first \o second,
         history |-> history,
         resp |->
            IF historyOk
            THEN [op |-> "upload", success |-> TRUE, cluster |-> v.cluster,
                  confidence |-> v.confidence, api_used |-> ApiUsed(mlResult),
                  fallback |-> Undefined, given |-> given]
            ELSE IF secondOk
            THEN [op |-> "upload", success |-> TRUE, cluster |-> Num(0),
                  confidence |-> Num(DefaultConfidence), api_used |-> False,
                  fallback |-> True, given |-> given]
            ELSE [op |-> "upload", success |-> FALSE, cluster |-> Undefined,
                  confidence |-> Undefined, api_used |-> Undefined,
                  fallback |-> Undefined, given |-> given]]

\* mutant: the id taken as MAX(id) + 1 instead of from the sequence
Append2Mutant(f, first, rows) ==
    LET top == IF DOMAIN f = {} THEN 0
               ELSE CHOOSE i \in DOMAIN f : \A j \in DOMAIN f : j <= i
    IN  [i \in DOMAIN f \cup (top + 1 .. top + Len(rows)) |->
            IF i \in DOMAIN f THEN f[i] ELSE rows[i - top]]

\* INSERT of rows into a table with a SERIAL id whose sequence stands at first
Append2(f, first, rows) ==
    [i \in DOMAIN f \cup (first .. first + Len(rows) - 1) |->
        IF i \in DOMAIN f THEN f[i] ELSE rows[i - first + 1]]

Upload(hasFile, ml, storageOk, dbFail, isPrivate) ==
    IF ~isAdmin
    THEN /\ resp' = Refused("upload")
         /\ UNCHANGED <<tables, session, now, inflight>>
    ELSE IF ~hasFile
    THEN /\ resp' = [op |-> "upload", success |-> FALSE, message |-> "No file selected"]
         /\ UNCHANGED <<tables, session, now, inflight>>
    ELSE LET run == UploadRun(ml, storageOk, dbFail, isPrivate, session.user)
         IN  /\ nextPdfId + Len(run.docs) <= MaxPdfs + 1
             /\ pdfs' = Append2(pdfs, nextPdfId, run.docs)
             /\ nextPdfId' = nextPdfId + Len(run.docs)
             /\ upload_history' = upload_history \o run.history
             /\ resp' = run.resp @@ [ids |-> nextPdfId .. nextPdfId + Len(run.docs) - 1]
             /\ UNCHANGED <<users, session, download_requests, nextReqId, favorites,
                            recently_viewed, download_history, now, inflight>>

\* The same handler in the steps its awaits cut it into, for calls that
\* overlap: up to the await of the classifier call, the settling of that
\* call, and the rest of the handler.
Calls == 1 .. MaxCalls

FirstFreeCall ==
    CHOOSE c \in Calls \ {r.call : r \in inflight} :
        \A d \in Calls \ {r.call : r \in inflight} : c <= d

PendingUploads == {r \in inflight : r.op = "upload"}

\* lines 235-266: the file is there, the storage fetch worked, and the
\* handler awaits fetch(ML_API_URL, { method, body, timeout: 60000 }).  The
\* global fetch takes no timeout option and the call passes no signal, so
\* nothing in the handler ends the wait.
UploadCall(isPrivate) ==
    /\ isAdmin
    /\ Cardinality(inflight) < MaxCalls
    /\ nextPdfId + Cardinality(PendingUploads) <= MaxPdfs
    /\ inflight' = inflight \cup
            {[call |-> FirstFreeCall, op |-> "upload", user |-> session.user,
              isPrivate |-> isPrivate, settled |-> FALSE,
              ml |-> [kind |-> "throw", body |-> NoBody]]}
    /\ UNCHANGED <<tables, session, now, resp>>

\* the classifier call of upload c settles: the promise of fetch resolves or
\* rejects, as the classifier and the network decide
ClassifierSettles(c, ml) ==
    \E r \in PendingUploads :
        /\ r.call = c
        /\ ~r.settled
        /\ inflight' = (inflight \ {r}) \cup {[r EXCEPT !.settled = TRUE, !.ml = ml]}
        /\ UNCHANGED <<tables, session, now, resp>>

\* lines 268-363: the rest of the handler of upload c, once its classifier
\* call has settled
UploadFinish(c, dbFail) ==
    \E r \in PendingUploads :
        /\ r.call = c
        /\ r.settled
        /\ LET run == UploadRun(r.ml, TRUE, dbFail, r.isPrivate, r.user)
           IN  /\ nextPdfId + Len(run.docs) <= MaxPdfs + 1
               /\ pdfs' = Append2(pdfs, nextPdfId, run.docs)
               /\ nextPdfId' = nextPdfId + Len(run.docs)
               /\ upload_history' = upload_history \o run.history
               /\ resp' = run.resp @@ [ids |-> nextPdfId .. nextPdfId + Len(run.docs) - 1]
        /\ inflight' = inflight \ {r}
        /\ UNCHANGED <<users, session, download_requests, nextReqId, favorites,
                       recently_viewed, download_history, now>>

-----------------------------------------------------------------------------
(* Administration of documents *)

Digits == {"0", "1", "2", "3", "4", "5", "6", "7", "8", "9"}

DigitValue(c) ==
    CASE c = "0" -> 0 [] c = "1" -> 1 [] c = "2" -> 2 [] c = "3" -> 3 [] c = "4" -> 4
      [] c = "5" -> 5 [] c = "6" -> 6 [] c = "7" -> 7 [] c = "8" -> 8 [] c = "9" -> 9

RECURSIVE LeadingDigits(_, _)
\* the value of the longest prefix of digits of s, after acc; -1 for no digit
LeadingDigits(s, acc) ==
    IF s = << >> \/ Head(s) \notin Digits THEN acc
    ELSE LeadingDigits(Tail(s), 10 * (IF acc < 0 THEN 0 ELSE acc) + DigitValue(Head(s)))

RECURSIVE TrimLeft(_)
TrimLeft(s) == IF s # << >> /\ Head(s) = " " THEN TrimLeft(Tail(s)) ELSE s

\* parseInt(course): leading blanks, an optional sign, then the digits up to
\* the first other character; NaN when there is no digit
ParseInt(str) ==
    LET s == TrimLeft(str)
        signed == s # << >> /\ Head(s) \in {"-", "+"}
        n == LeadingDigits(IF signed THEN Tail(s) ELSE s, -1)
    IN  IF n < 0 THEN [nan |-> TRUE, n |-> 0]
        ELSE [nan |-> FALSE, n |-> IF signed /\ Head(s) = "-" THEN -n ELSE n]

\* the course values a form can submit
CourseInputs == {<<"2">>, <<"9">>, <<"-", "1">>, <<"2", ".", "7">>, <<" ", "5">>,
                 <<"a">>, << >>}

PdfIds == 1 .. MaxPdfs

\* POST /update-course/:id
UpdateCourse(id, course, dbOk) ==
    IF ~isAdmin
    THEN /\ resp' = Refused("update-course")
         /\ UNCHANGED <<tables, session, now, inflight>>
    ELSE LET c == ParseInt(course)
         IN  IF c.nan \/ ~dbOk
             THEN /\ resp' = [op |-> "update-course", body |-> "Failed to update course",
                              id |-> id]
                  /\ UNCHANGED <<tables, session, now, inflight>>
             ELSE /\ pdfs' = [i \in DOMAIN pdfs |->
                                IF i = id THEN [pdfs[i] EXCEPT !.cluster = c.n] ELSE pdfs[i]]
                  /\ resp' = Redirect("update-course", "/admin") @@ [id |-> id]
                  /\ UNCHANGED <<users, session, nextPdfId, download_requests, nextReqId,
                                 favorites, recently_viewed, download_history,
                                 upload_history, now, inflight>>

\* the rows of a sequence table that do not reference pdf id
Without(rows, id) == SelectSeq(rows, LAMBDA r : r.pdf_id # id)

\* how many rows of each table reference pdf id
Referencing(id) ==
    [download_requests |->
        Cardinality({r \in DOMAIN download_requests : download_requests[r].pdf_id = id}),
     favorites |-> Cardinality({f \in favorites : f[2] = id}),
     recently_viewed |-> Len(recently_viewed) - Len(Without(recently_viewed, id)),
     download_history |-> Len(download_history) - Len(Without(download_history, id))]

\* mutant: download_requests.pdf_id declared without its foreign key
CascadeRequestsMutant(id) == download_requests

\* ON DELETE CASCADE of the foreign keys on pdfs(id)
CascadeRequests(id) ==
    [r \in {x \in DOMAIN download_requests : download_requests[x].pdf_id # id} |->
        download_requests[r]]

\* POST /delete/:id
Delete(id, dbOk) ==
    IF ~isAdmin
    THEN /\ resp' = Refused("delete")
         /\ UNCHANGED <<tables, session, now, inflight>>
    ELSE IF ~dbOk
    THEN /\ resp' = [op |-> "delete", body |-> "no response", id |-> id]
         /\ UNCHANGED <<tables, session, now, inflight>>
    ELSE /\ pdfs' = [i \in DOMAIN pdfs \ {id} |-> pdfs[i]]
         /\ download_requests' = CascadeRequests(id)
         /\ favorites' = {f \in favorites : f[2] # id}
         /\ recently_viewed' = Without(recently_viewed, id)
         /\ download_history' = Without(download_history, id)
         /\ resp' = Redirect("delete", "/admin") @@ [id |-> id, cascaded |-> Referencing(id)]
         /\ UNCHANGED <<users, session, nextPdfId, nextReqId, upload_history, now, inflight>>

\* POST /toggle-private/:id
TogglePrivate(id, dbOk) ==
    IF ~isAdmin
    THEN /\ resp' = Refused("toggle-private")
         /\ UNCHANGED <<tables, session, now, inflight>>
    ELSE IF ~dbOk
    THEN /\ resp' = [op |-> "toggle-private", body |-> "Failed to update private status",
                     id |-> id]
         /\ UNCHANGED <<tables, session, now, inflight>>
    ELSE IF id \notin DOMAIN pdfs
    THEN /\ resp' = [op |-> "toggle-private", body |-> "PDF not found", id |-> id]
         /\ UNCHANGED <<tables, session, now, inflight>>
    ELSE /\ pdfs' = [pdfs EXCEPT ![id].is_private = ~pdfs[id].is_private]
         /\ resp' = Redirect("toggle-private", "/view-admin") @@ [id |-> id]
         /\ UNCHANGED <<users, session, nextPdfId, download_requests, nextReqId,
                        favorites, recently_viewed, download_history, upload_history, now, inflight>>

\* The same handler in the two steps its awaits cut it into, for calls that
\* overlap: the SELECT with the computation of the new value, and the UPDATE
\* with the answer.  An UPDATE of a row that is gone changes nothing.
PendingToggles == {r \in inflight : r.op = "toggle-private"}

TogglePrivateRead(id) ==
    /\ isAdmin
    /\ id \in DOMAIN pdfs
    /\ Cardinality(inflight) < MaxCalls
    /\ inflight' = inflight \cup
          {[call |-> FirstFreeCall, op |-> "toggle-private", id |-> id,
            isPrivate |-> ~pdfs[id].is_private]}
    /\ UNCHANGED <<tables, session, now, resp>>

TogglePrivateWrite(c) ==
    \E r \in PendingToggles :
        /\ r.call = c
        /\ pdfs' = IF r.id \in DOMAIN pdfs
                   THEN [pdfs EXCEPT ![r.id].is_private = r.isPrivate]
                   ELSE pdfs
        /\ resp' = Redirect("toggle-private", "/view-admin") @@ [id |-> r.id]
        /\ inflight' = inflight \ {r}
        /\ UNCHANGED <<users, session, nextPdfId, download_requests, nextReqId,
                       favorites, recently_viewed, download_history, upload_history, now>>

-----------------------------------------------------------------------------
(* The download-authorization workflow *)

ReqIds == 1 .. MaxReqs

NullTime == -1

\* mutant: responded_at declared DEFAULT NOW() like requested_at
NewRequestMutant(id, username) ==
    [pdf_id |-> id, username |-> username, status |-> "pending",
     requested_at |-> now, responded_at |-> now]

\* a new download_requests row: status DEFAULT 'pending', requested_at
\* DEFAULT NOW(), responded_at NULL
NewRequest(id, username) ==
    [pdf_id |-> id, username |-> username, status |-> "pending",
     requested_at |-> now, responded_at |-> NullTime]

\* mutant: download_requests.pdf_id declared without its foreign key
InsertRefusedMutant(id, dbOk) == ~dbOk

\* the INSERT is refused: a fault, or the foreign key on pdfs(id)
InsertRefused(id, dbOk) == ~dbOk \/ id \notin DOMAIN pdfs

\* POST /request-download/:id
RequestDownload(id, dbOk) ==
    IF ~requireLogin
    THEN /\ resp' = Refused("request-download")
         /\ UNCHANGED <<tables, session, now, inflight>>
    ELSE IF InsertRefused(id, dbOk)
    THEN \* the catch block
         /\ resp' = [op |-> "request-download", body |-> "Request already sent", id |-> id]
         /\ UNCHANGED <<tables, session, now, inflight>>
    ELSE /\ nextReqId <= MaxReqs
         /\ download_requests' =
               Append2(download_requests, nextReqId, <<NewRequest(id, session.user)>>)
         /\ nextReqId' = nextReqId + 1
         /\ resp' = Redirect("request-download", "/view") @@ [id |-> id]
         /\ UNCHANGED <<users, session, pdfs, nextPdfId, favorites, recently_viewed,
                        download_history, upload_history, now, inflight>>

\* the action values an admin can post
ActionInputs == {"accepted", "rejected", "pending", "approve",
                 "accepted-by-the-admin"}

\* mutant: the UPDATE without its WHERE clause
DecideAll(rid, action) ==
    [r \in DOMAIN download_requests |->
        [download_requests[r] EXCEPT !.status = action, !.responded_at = now]]

\* mutant: the UPDATE restricted to rows that are still pending
DecideMutant(rid, action) ==
    [r \in DOMAIN download_requests |->
        IF r = rid /\ download_requests[r].status = "pending"
        THEN [download_requests[r] EXCEPT !.status = action, !.responded_at = now]
        ELSE download_requests[r]]

\* UPDATE download_requests SET status=$1, responded_at=NOW() WHERE id=$2
Decide(rid, action) ==
    [r \in DOMAIN download_requests |->
        IF r = rid
        THEN [download_requests[r] EXCEPT !.status = action, !.responded_at = now]
        ELSE download_requests[r]]

\* POST /admin/download-action/:id
DownloadAction(rid, action, dbOk) ==
    IF ~isAdmin
    THEN /\ resp' = Refused("download-action")
         /\ UNCHANGED <<tables, session, now, inflight>>
    ELSE IF ~dbOk \/ Len(action) > StatusLen
    THEN \* the query rejects and nothing catches it: no answer is sent
         /\ resp' = [op |-> "download-action", body |-> "no response", id |-> rid,
                     action |-> action]
         /\ UNCHANGED <<tables, session, now, inflight>>
    ELSE /\ download_requests' = Decide(rid, action)
         /\ resp' = Redirect("download-action", "/admin/download-requests")
                        @@ [id |-> rid, action |-> action]
         /\ UNCHANGED <<users, session, pdfs, nextPdfId, nextReqId, favorites,
                        recently_viewed, download_history, upload_history, now, inflight>>

\* the rows of (id, username) in download_requests
PairRows(id, username) ==
    {r \in DOMAIN download_requests :
        download_requests[r].pdf_id = id /\ download_requests[r].username = username}

\* mutant: ORDER BY requested_at ASC
LatestRowsMutant(id, username) ==
    {r \in PairRows(id, username) :
        \A q \in PairRows(id, username) :
            download_requests[r].requested_at <= download_requests[q].requested_at}

\* WHERE pdf_id=$1 AND username=$2 ORDER BY requested_at DESC LIMIT 1: the
\* rows the query can return; which of several rows with the same
\* requested_at comes first is the database's choice
LatestRows(id, username) ==
    {r \in PairRows(id, username) :
        \A q \in PairRows(id, username) :
            download_requests[q].requested_at <= download_requests[r].requested_at}

\* mutant: the gate closed for private documents
GateRowsPublic(id, username) ==
    {r \in DOMAIN download_requests :
        /\ download_requests[r].pdf_id = id
        /\ download_requests[r].username = username
        /\ download_requests[r].status = "accepted"
        /\ id \in DOMAIN pdfs
        /\ ~pdfs[id].is_private}

\* mutant: the gate asks the newest row of the pair only
GateRowsNewest(id, username) ==
    {r \in LatestRows(id, username) :
        download_requests[r].status = "accepted" /\ id \in DOMAIN pdfs}

\* the gate query of GET /download/:id: the rows of (id, username) joined
\* with pdfs whose status is 'accepted'
\* mutant: the username condition left out of the WHERE clause
GateRowsMutant(id, username) ==
    {r \in DOMAIN download_requests :
        /\ download_requests[r].pdf_id = id
        /\ download_requests[r].status = "accepted"
        /\ id \in DOMAIN pdfs}
GateRows(id, username) ==
    {r \in DOMAIN download_requests :
        /\ download_requests[r].pdf_id = id
        /\ download_requests[r].username = username
        /\ download_requests[r].status = "accepted"
        /\ id \in DOMAIN pdfs}

DownloadStatements == {"check", "download_history"}
FetchOutcomes == {"ok", "not ok", "throws"}

\* GET /download/:id
Download(id, fetch, dbFail) ==
    IF ~requireLogin
    THEN /\ resp' = Refused("download")
         /\ UNCHANGED <<tables, session, now, inflight>>
    ELSE LET given == [fetch |-> fetch, dbFail |-> dbFail]
             answer(body) == [op |-> "download", body |-> body, id |-> id, given |-> given]
         IN  IF "check" \in dbFail
             THEN /\ resp' = answer("Download failed")
                  /\ UNCHANGED <<tables, session, now, inflight>>
             ELSE IF GateRows(id, session.user) = {}
             THEN /\ resp' = answer("Not allowed")
                  /\ UNCHANGED <<tables, session, now, inflight>>
             ELSE IF "download_history" \in dbFail
             THEN /\ resp' = answer("Download failed")
                  /\ UNCHANGED <<tables, session, now, inflight>>
             ELSE /\ Len(download_history) < MaxHist
                  /\ download_history' =
                        Append(download_history, [pdf_id |-> id, username |-> session.user])
                  /\ resp' = answer(CASE fetch = "ok" -> "pdf"
                                      [] fetch = "not ok" -> "Failed to fetch file"
                                      [] OTHER -> "Download failed")
                  /\ UNCHANGED <<users, session, pdfs, nextPdfId, download_requests,
                                 nextReqId, favorites, recently_viewed, upload_history, now, inflight>>

\* GET /request-status/:id; status is << >> for JSON null
RequestStatus(id, dbOk) ==
    IF ~requireLogin
    THEN /\ resp' = Refused("request-status")
         /\ UNCHANGED <<tables, session, now, inflight>>
    ELSE IF ~dbOk
    THEN \* the query rejects and nothing catches it: no answer is sent
         /\ resp' = [op |-> "request-status", body |-> "no response", id |-> id]
         /\ UNCHANGED <<tables, session, now, inflight>>
    ELSE IF LatestRows(id, session.user) = {}
    THEN /\ resp' = [op |-> "request-status", body |-> "json", id |-> id, status |-> << >>]
         /\ UNCHANGED <<tables, session, now, inflight>>
    ELSE /\ \E r \in LatestRows(id, session.user) :
               resp' = [op |-> "request-status", body |-> "json", id |-> id,
                        status |-> <<download_requests[r].status>>]
         /\ UNCHANGED <<tables, session, now, inflight>>

\* POST /favorite/:id: the insert's errors (duplicate, foreign key) are swallowed
Favorite(id) ==
    IF ~requireLogin
    THEN /\ resp' = Refused("favorite")
         /\ UNCHANGED <<tables, session, now, inflight>>
    ELSE /\ favorites' = IF id \in DOMAIN pdfs
                         THEN favorites \cup {<<session.user, id>>}
                         ELSE favorites
         /\ resp' = Redirect("favorite", "/view") @@ [id |-> id]
         /\ UNCHANGED <<users, session, pdfs, nextPdfId, download_requests, nextReqId,
                        recently_viewed, download_history, upload_history, now, inflight>>

\* GET /view/:id, up to the row it adds to recently_viewed
View(id, dbOk) ==
    IF ~requireLogin
    THEN /\ resp' = Refused("view")
         /\ UNCHANGED <<tables, session, now, inflight>>
    ELSE IF ~dbOk
    THEN /\ resp' = [op |-> "view", body |-> "Error loading file", id |-> id]
         /\ UNCHANGED <<tables, session, now, inflight>>
    ELSE IF id \notin DOMAIN pdfs
    THEN /\ resp' = [op |-> "view", body |-> "File not found", id |-> id]
         /\ UNCHANGED <<tables, session, now, inflight>>
    ELSE IF pdfs[id].is_private /\ session.role # "admin"
    THEN /\ resp' = [op |-> "view", body |-> "Access denied", id |-> id]
         /\ UNCHANGED <<tables, session, now, inflight>>
    ELSE /\ Len(recently_viewed) < MaxHist
         /\ recently_viewed' =
               Append(recently_viewed, [pdf_id |-> id, username |-> session.user])
         /\ resp' = [op |-> "view", body |-> "view", id |-> id]
         /\ UNCHANGED <<users, session, pdfs, nextPdfId, download_requests, nextReqId,
                        favorites, download_history, upload_history, now, inflight>>

\* POST /user/log-view; NoPdfId stands for a request without a pdf_id.  The
\* handler has no try/catch: a failed INSERT, that of an id without a pdfs
\* row included, leaves the request unanswered.
NoPdfId == 0

LogView(pdf_id, dbOk) ==
    IF ~requireLogin
    THEN /\ resp' = Refused("log-view")
         /\ UNCHANGED <<tables, session, now, inflight>>
    ELSE IF pdf_id = NoPdfId
    THEN /\ resp' = [op |-> "log-view", success |-> FALSE, id |-> pdf_id]
         /\ UNCHANGED <<tables, session, now, inflight>>
    ELSE IF ~dbOk \/ pdf_id \notin DOMAIN pdfs
    THEN /\ resp' = [op |-> "log-view", body |-> "no response", id |-> pdf_id]
         /\ UNCHANGED <<tables, session, now, inflight>>
    ELSE /\ Len(recently_viewed) < MaxHist
         /\ recently_viewed' =
               Append(recently_viewed, [pdf_id |-> pdf_id, username |-> session.user])
         /\ resp' = [op |-> "log-view", success |-> TRUE, id |-> pdf_id]
         /\ UNCHANGED <<users, session, pdfs, nextPdfId, download_requests, nextReqId,
                        favorites, download_history, upload_history, now, inflight>>

-----------------------------------------------------------------------------
(* Specifications.  The whole server is too large to explore at once, so   *)
(* each specification runs the handlers of one concern from Init; the      *)
(* handlers are the same everywhere, only the inputs offered differ.       *)

ClassifierDown == [kind |-> "status", body |-> NoBody]

\* The download-authorization workflow: request, decision, gated download,
\* delete.  The database answers every statement; the storage fetch of a
\* download may fail.
Next ==
    \/ \E u \in Usernames, p \in Passwords : Login(u, p, TRUE)
    \/ Logout
    \/ Tick
    \/ Upload(TRUE, ClassifierDown, TRUE, {}, FALSE)
    \/ \E id \in PdfIds : RequestDownload(id, TRUE)
    \/ \E rid \in ReqIds, action \in ActionInputs : DownloadAction(rid, action, TRUE)
    \/ \E id \in PdfIds, fetch \in FetchOutcomes : Download(id, fetch, {})
    \/ \E id \in PdfIds : Delete(id, TRUE)

Spec == Init /\ [][Next]_vars

\* Delete and every table that references pdfs(id).
NextCascade ==
    \/ \E u \in Usernames, p \in Passwords : Login(u, p, TRUE)
    \/ Upload(TRUE, ClassifierDown, TRUE, {}, FALSE)
    \/ \E id \in PdfIds : RequestDownload(id, TRUE)
    \/ \E rid \in ReqIds, action \in {"accepted", "rejected"} :
            DownloadAction(rid, action, TRUE)
    \/ \E id \in PdfIds : Download(id, "ok", {})
    \/ \E id \in PdfIds : Favorite(id)
    \/ \E id \in PdfIds : View(id, TRUE)
    \/ \E id \in PdfIds : Delete(id, TRUE)

SpecCascade == Init /\ [][NextCascade]_vars

\* The classification pipeline with every classifier outcome and every
\* storage and database fault.
NextUpload ==
    \/ \E u \in Usernames, p \in Passwords : Login(u, p, TRUE)
    \/ Logout
    \/ \E hasFile \in BOOLEAN, in \in UploadInputs :
            Upload(hasFile, in.ml, in.storageOk, in.dbFail, FALSE)
    \/ \E id \in PdfIds : Delete(id, TRUE)

SpecUpload == Init /\ [][NextUpload]_vars

\* Requests, decisions, the status query and the gate, with a database that
\* can refuse the insert of a request.
NextRequests ==
    \/ \E u \in Usernames, p \in Passwords : Login(u, p, TRUE)
    \/ Tick
    \/ Upload(TRUE, ClassifierDown, TRUE, {}, FALSE)
    \/ \E id \in PdfIds, dbOk \in BOOLEAN : RequestDownload(id, dbOk)
    \/ \E rid \in ReqIds, action \in {"accepted", "rejected"} :
            DownloadAction(rid, action, TRUE)
    \/ \E id \in PdfIds, dbOk \in BOOLEAN : RequestStatus(id, dbOk)
    \/ \E id \in PdfIds : Download(id, "ok", {})

SpecRequests == Init /\ [][NextRequests]_vars

\* Every route of the workflow, called without a session, as a member and as
\* the administrator.
NextAuth ==
    \/ \E u \in Usernames, p \in Passwords : Login(u, p, TRUE)
    \/ Logout
    \/ Upload(TRUE, ClassifierDown, TRUE, {}, FALSE)
    \/ \E id \in PdfIds : RequestDownload(id, TRUE)
    \/ \E id \in PdfIds : RequestStatus(id, TRUE)
    \/ \E id \in PdfIds : Download(id, "ok", {})
    \/ \E rid \in ReqIds : DownloadAction(rid, "accepted", TRUE)
    \/ \E id \in PdfIds : UpdateCourse(id, <<"2">>, TRUE)
    \/ \E id \in PdfIds : TogglePrivate(id, TRUE)
    \/ \E id \in PdfIds : Delete(id, TRUE)

SpecAuth == Init /\ [][NextAuth]_vars

\* Registration, login and logout, and two admin routes to try the session
\* on.
NextSession ==
    \/ \E u \in RegisterNames, p \in RegisterPasswords, dbOk \in BOOLEAN :
            Register(u, p, dbOk)
    \/ \E u \in Usernames \cup RegisterNames, p \in Passwords \cup RegisterPasswords,
          dbOk \in BOOLEAN : Login(u, p, dbOk)
    \/ Logout
    \/ Upload(TRUE, ClassifierDown, TRUE, {}, FALSE)
    \/ \E id \in PdfIds : Delete(id, TRUE)

SpecSession == Init /\ [][NextSession]_vars

\* Uploads that overlap, with a classifier that answers, fails, or never
\* settles the call.  The event loop runs the rest of a handler once its
\* await has settled, hence the weak fairness of UploadFinish; nothing makes
\* the classifier settle a call.
SettleInputs ==
    {[kind |-> "throw", body |-> NoBody], ClassifierDown,
     [kind |-> "json", body |-> [success |-> True, cluster |-> Num(200),
                                 confidence |-> Num(91)]]}

NextClassifier ==
    \/ \E u \in Usernames, p \in Passwords : Login(u, p, TRUE)
    \/ Logout
    \/ UploadCall(FALSE)
    \/ \E c \in Calls, ml \in SettleInputs : ClassifierSettles(c, ml)
    \/ \E c \in Calls : UploadFinish(c, {})
    \/ \E id \in PdfIds : Delete(id, TRUE)

SpecClassifier ==
    /\ Init
    /\ [][NextClassifier]_vars
    /\ WF_vars(\E c \in Calls : UploadFinish(c, {}))

\* The documents table under uploads, category corrections, visibility
\* toggles and deletes.
CatalogInputs ==
    [ml : {ClassifierDown,
           [kind |-> "json", body |-> [success |-> True, cluster |-> Num(900),
                                       confidence |-> Num(140)]]},
     storageOk : BOOLEAN, dbFail : {{}}]

NextCatalog ==
    \/ \E u \in Usernames, p \in Passwords : Login(u, p, TRUE)
    \/ \E in \in CatalogInputs, isPrivate \in BOOLEAN :
            Upload(TRUE, in.ml, in.storageOk, in.dbFail, isPrivate)
    \/ \E id \in PdfIds, course \in CourseInputs, dbOk \in BOOLEAN :
            UpdateCourse(id, course, dbOk)
    \/ \E id \in PdfIds, dbOk \in BOOLEAN : TogglePrivate(id, dbOk)
    \/ \E id \in PdfIds : Delete(id, TRUE)

SpecCatalog == Init /\ [][NextCatalog]_vars

\* Visibility: toggles whose steps interleave with each other, and the two
\* routes that write the view history.
NextVisibility ==
    \/ \E u \in Usernames, p \in Passwords : Login(u, p, TRUE)
    \/ \E isPrivate \in BOOLEAN : Upload(TRUE, ClassifierDown, TRUE, {}, isPrivate)
    \/ \E id \in PdfIds : TogglePrivateRead(id)
    \/ \E c \in Calls : TogglePrivateWrite(c)
    \/ \E id \in PdfIds, dbOk \in BOOLEAN : View(id, dbOk)
    \/ \E pdf_id \in PdfIds \cup {NoPdfId}, dbOk \in BOOLEAN : LogView(pdf_id, dbOk)
    \/ \E id \in PdfIds : Delete(id, TRUE)

SpecVisibility == Init /\ [][NextVisibility]_vars

\* The classification clamp as a function: Init draws a numeric
\* (cluster, confidence) pair and the action applies the clamp to it, twice.
ClampClusters == {Num(-100), Num(0), Num(100), Num(250), Num(400), Num(500), Num(600),
                  Num(900)}
ClampConfidences == {Num(-20), Num(0), Num(5), Num(10), Num(50), Num(78), Num(100),
                     Num(101), Num(140)}

InitClamp ==
    /\ users = [u \in Usernames |->
                  IF u = "admin" THEN BcryptHash("admin123") ELSE BcryptHash("user123")]
    /\ session = NoSession
    /\ pdfs = << >>
    /\ nextPdfId = 1
    /\ download_requests = << >>
    /\ nextReqId = 1
    /\ favorites = {}
    /\ recently_viewed = << >>
    /\ download_history = << >>
    /\ upload_history = << >>
    /\ now = 0
    /\ inflight = {}
    /\ \E c \in ClampClusters, x \in ClampConfidences :
          resp = [op |-> "clamp", applied |-> 0,
                  in |-> [cluster |-> c, confidence |-> x],
                  once |-> [cluster |-> c, confidence |-> x],
                  out |-> [cluster |-> c, confidence |-> x]]

ApplyClamp ==
    /\ resp.op = "clamp"
    /\ resp.applied < 2
    /\ resp' = [resp EXCEPT !.applied = @ + 1,
                            !.out = Validated(@),
                            !.once = IF resp.applied = 0 THEN Validated(@) ELSE @]
    /\ UNCHANGED <<tables, session, now, inflight>>

SpecClamp == InitClamp /\ [][ApplyClamp]_vars

-----------------------------------------------------------------------------
(* Properties of the download-authorization workflow *)

Rows(id, username) ==
    {r \in DOMAIN download_requests :
        download_requests[r].pdf_id = id /\ download_requests[r].username = username}

HasAccepted(id, username) ==
    \E r \in Rows(id, username) : download_requests[r].status = "accepted"

\* the last request was a download by a logged-in user
Downloaded == resp.op = "download" /\ resp.body # "redirect"

\* C1 Gate soundness: a download by a user returns the binary only if some
\* row of exactly that (user, document) pair is accepted, answers 'Not
\* allowed' whenever the pair has no accepted row, and, when the storage
\* fetch works, returns the binary if and only if the pair has an accepted
\* row; where the latest row of the pair is of no account.
GateSoundness ==
    Downloaded =>
        LET granted == HasAccepted(resp.id, session.user)
        IN  /\ resp.body = "pdf" => granted
            /\ ~granted => resp.body = "Not allowed"
            /\ resp.given.fetch = "ok" => (resp.body = "pdf" <=> granted)

\* C1 witness: the binary is returned to a user whose earlier row is
\* accepted and whose later row is rejected, while the other user holds no
\* accepted row for the document
GateSoundnessWitness ==
    /\ Downloaded
    /\ resp.body = "pdf"
    /\ \E a, b \in Rows(resp.id, session.user) :
          /\ download_requests[a].status = "accepted"
          /\ download_requests[b].status = "rejected"
          /\ download_requests[a].requested_at < download_requests[b].requested_at

\* C2 Monotonic status: a row whose status is accepted or rejected keeps
\* that status in every step
MonotonicStatus ==
    [][\A r \in DOMAIN download_requests \cap DOMAIN download_requests' :
          download_requests[r].status \in {"accepted", "rejected"}
              => download_requests'[r].status = download_requests[r].status]_vars

\* C3 Status domain: every row's status is pending, accepted or rejected
StatusDomain ==
    \A r \in DOMAIN download_requests :
        download_requests[r].status \in {"pending", "accepted", "rejected"}

\* the tables that reference pdfs(id) hold no row for pdf id
Unreferenced(id) ==
    /\ \A r \in DOMAIN download_requests : download_requests[r].pdf_id # id
    /\ \A f \in favorites : f[2] # id
    /\ \A i \in DOMAIN recently_viewed : recently_viewed[i].pdf_id # id
    /\ \A i \in DOMAIN download_history : download_history[i].pdf_id # id

\* the ids of documents that were uploaded and are deleted
DeletedIds == (1 .. nextPdfId - 1) \ DOMAIN pdfs

\* C4 Cascade completeness: no download_requests, favorites, download_history
\* or recently_viewed row references a deleted document, and every download
\* attempt for a deleted document's id is answered 'Not allowed'
CascadeCompleteness ==
    /\ \A id \in DeletedIds : Unreferenced(id)
    /\ (resp.op = "delete" /\ resp.body = "redirect" /\ resp.to = "/admin")
          => resp.id \notin DOMAIN pdfs /\ Unreferenced(resp.id)
    /\ (Downloaded /\ resp.id \in DeletedIds) => resp.body = "Not allowed"

\* C4 witness: a delete has just removed a document that had a row in each
\* of the four referencing tables
CascadeCompletenessWitness ==
    /\ resp.op = "delete" /\ resp.body = "redirect" /\ resp.to = "/admin"
    /\ resp.cascaded.download_requests > 0
    /\ resp.cascaded.favorites > 0
    /\ resp.cascaded.recently_viewed > 0
    /\ resp.cascaded.download_history > 0

-----------------------------------------------------------------------------
(* Properties of the upload classification pipeline *)

\* the last request was an upload of a file by an admin
Uploaded == resp.op = "upload" /\ "given" \in DOMAIN resp

\* storage and database worked during the last upload
Healthy == resp.given.storageOk /\ resp.given.dbFail = {}

ClassifierFailed == resp.given.ml.kind \in MLFailKinds

ValidCluster(c) == c \in 0 .. 5
ValidConfidence(x) == x.t = "num" /\ x.v >= 10 /\ x.v <= 100

\* the last upload stored exactly one document and it is (c, x)
StoredOne(c, x) ==
    /\ Cardinality(resp.ids) = 1
    /\ \A id \in resp.ids :
          /\ id \in DOMAIN pdfs
          /\ pdfs[id].cluster = c
          /\ pdfs[id].confidence = x

FallbackDefaults ==
    (Uploaded /\ ClassifierFailed /\ Healthy) =>
        /\ resp.success
        /\ StoredOne(0, Num(78))
        /\ resp.cluster = Num(0)
        /\ resp.confidence = Num(78)
        /\ upload_history # << >>
        /\ upload_history[Len(upload_history)].course = 0

\* C6 witness: the classifier answered HTTP 500 and the document is stored
\* with (0, 0.78)
FallbackDefaultsWitness ==
    /\ Uploaded /\ Healthy
    /\ resp.given.ml.kind = "status"
    /\ StoredOne(0, Num(78))

\* the classifier gave both numbers and they are what the upload stored
\* from, rather than defaults put in their place
Classified ==
    /\ resp.given.ml.kind = "json"
    /\ resp.given.ml.body.cluster.t = "num"
    /\ resp.given.ml.body.confidence.t = "num"
    /\ resp.fallback # True

\* C7 Fallback indicator: the answer of a successful upload says 'classifier
\* used' (api_used true) exactly when the stored category and confidence come
\* from the classifier, and says 'fallback' otherwise
FallbackIndicator ==
    (Uploaded /\ resp.success) => (resp.api_used = True <=> Classified)

Numeric(p) == p.cluster.t = "num" /\ p.confidence.t = "num"

\* the clamp as the specification states it
Into(lo, hi, n) == IF n < lo THEN lo ELSE IF n > hi THEN hi ELSE n

\* the pair the last upload took from the classifier or from the defaults
Obtained == Prediction(MlResultOf(resp.given.ml))

\* C8 Clamp policy: when the pair obtained from the classifier or the defaults
\* is numeric, every document the upload stores has a category in 0..5 and a
\* confidence in [0.1, 1.0]; and when the category is a whole number and the
\* first INSERT is reached and works, the stored pair is the obtained pair
\* clamped into 0..5 and [0.1, 1.0]
ClampPolicy ==
    (Uploaded /\ Numeric(Obtained)) =>
        /\ \A id \in resp.ids :
              /\ id \in DOMAIN pdfs
              /\ ValidCluster(pdfs[id].cluster)
              /\ ValidConfidence(pdfs[id].confidence)
        /\ (Healthy /\ Obtained.cluster.v % 100 = 0) =>
              StoredOne(Into(0, 5, Obtained.cluster.v \div 100),
                        Num(Into(10, 100, Obtained.confidence.v)))

\* C8 witness: the classifier answered category 9 with confidence 1.4 and the
\* document is stored with (5, 1.0)
ClampPolicyWitness ==
    /\ Uploaded /\ Healthy
    /\ resp.given.ml.kind = "json"
    /\ resp.given.ml.body.cluster = Num(900)
    /\ resp.given.ml.body.confidence = Num(140)
    /\ StoredOne(5, Num(100))

InRange(p) ==
    /\ p.cluster.v >= 0 /\ p.cluster.v <= 500
    /\ p.confidence.v >= 10 /\ p.confidence.v <= 100

\* C9 Clamp idempotence: the clamp returns a pair that is within range
\* unchanged, and a second application returns what the first returned
ClampIdempotence ==
    resp.op = "clamp" =>
        /\ (resp.applied >= 1 /\ InRange(resp.in)) => resp.once = resp.in
        /\ resp.applied = 2 => resp.out = resp.once

\* C9 witness: the clamp was applied twice to a pair outside the range
ClampIdempotenceWitness ==
    /\ resp.op = "clamp"
    /\ resp.applied = 2
    /\ ~InRange(resp.in)
    /\ resp.once # resp.in

\* C10 Document range: every stored document has a category in 0..5 and a
\* confidence in [0, 1]
DocumentRange ==
    \A id \in DOMAIN pdfs :
        /\ ValidCluster(pdfs[id].cluster)
        /\ pdfs[id].confidence.t = "num"
        /\ pdfs[id].confidence.v >= 0
        /\ pdfs[id].confidence.v <= 100

\* the classifier answered 2xx with a JSON object whose category or
\* confidence is missing or is not a number
Malformed ==
    /\ resp.given.ml.kind = "json"
    /\ \/ resp.given.ml.body.cluster.t # "num"
       \/ resp.given.ml.body.confidence.t # "num"

\* C11 Malformed classifier response: when the classifier answers 2xx with a
\* body whose category or confidence is missing or non-numeric (and storage
\* and database work), the upload reports success and stores one document
\* with the category 0 and the confidence 0.78 of an unreachable classifier,
\* so that no value that is not a number is stored
MalformedAsFailure ==
    (Uploaded /\ Healthy /\ Malformed) =>
        /\ resp.success
        /\ StoredOne(0, Num(FallbackConfidence))

-----------------------------------------------------------------------------
(* Properties of requests, decisions and the status query *)

\* the last request was a status query that the database answered
StatusAnswered == resp.op = "request-status" /\ resp.body = "json"

\* r is a row of the pair and no row of the pair was requested later
Newest(r, id, username) ==
    /\ r \in Rows(id, username)
    /\ \A q \in Rows(id, username) :
          download_requests[q].requested_at <= download_requests[r].requested_at

\* C12 Latest-status query: the status query of a user for a document answers
\* the status of a row of that pair with the greatest requested_at, and null
\* when the pair has no row, whatever rows other users and other documents
\* have
LatestStatusQuery ==
    StatusAnswered =>
        IF Rows(resp.id, session.user) = {}
        THEN resp.status = << >>
        ELSE \E r \in Rows(resp.id, session.user) :
                /\ Newest(r, resp.id, session.user)
                /\ resp.status = <<download_requests[r].status>>

\* C12 witness: the query answers the status of the pair's later row while
\* the pair's earlier row has another status
LatestStatusQueryWitness ==
    /\ StatusAnswered
    /\ \E a, b \in Rows(resp.id, session.user) :
          /\ download_requests[a].requested_at < download_requests[b].requested_at
          /\ download_requests[a].status # download_requests[b].status
          /\ resp.status = <<download_requests[b].status>>

\* the answers the status query can give the user of the session for id
StatusAnswers(id) ==
    IF Rows(id, session.user) = {} THEN {<< >>}
    ELSE {<<download_requests[r].status>> : r \in {q \in Rows(id, session.user) :
                                                    Newest(q, id, session.user)}}

\* the last request was a download whose gate query the database answered
GateAnswered == Downloaded /\ "check" \notin resp.given.dbFail

\* the gate let the last download through
Permitted == GateAnswered /\ resp.body # "Not allowed"

\* C13 Newest request governs the gate (as stated): a download is permitted
\* exactly when the status query for the same pair reports accepted
NewestGoverns ==
    GateAnswered => (Permitted <=> StatusAnswers(resp.id) = {<<"accepted">>})

\* C13 (amended): the newest row governs the status query only.  A download
\* is permitted whenever the status query can report accepted, and it is
\* permitted exactly when some row of the pair, newest or not, is accepted
NewestGovernsQueryOnly ==
    GateAnswered =>
        /\ <<"accepted">> \in StatusAnswers(resp.id) => Permitted
        /\ Permitted <=>
              \E r \in Rows(resp.id, session.user) :
                  download_requests[r].status = "accepted"

\* C13 witness: a download is permitted while the status query for the pair
\* reports rejected, the accepted row being the older one
NewestGovernsQueryOnlyWitness ==
    /\ Permitted
    /\ StatusAnswers(resp.id) = {<<"rejected">>}
    /\ Cardinality(Rows(resp.id, session.user)) = 2

\* a step in which the route op answered (only Tick moves the clock, and
\* Tick leaves the last answer standing)
Handled(op) == resp'.op = op /\ now' = now

\* a step in which request-download answered that the row is stored
RequestStored ==
    Handled("request-download") /\ resp'.body = "redirect" /\ resp'.to = "/view"

\* every table but download_requests is left as it is
OtherTablesUnchanged ==
    UNCHANGED <<users, pdfs, nextPdfId, favorites, recently_viewed, download_history,
                upload_history>>

\* C14 Request creation: every request-download that the database accepts
\* adds exactly one row, for the requester and the document, with status
\* pending and no responded_at, and changes no other row of any table;
\* whatever rows the pair already has, rejected or pending
RequestCreation ==
    [][RequestStored =>
          /\ \E n \in DOMAIN download_requests' \ DOMAIN download_requests :
                /\ DOMAIN download_requests' = DOMAIN download_requests \cup {n}
                /\ download_requests'[n].pdf_id = resp'.id
                /\ download_requests'[n].username = session.user
                /\ download_requests'[n].status = "pending"
                /\ download_requests'[n].responded_at = NullTime
          /\ \A r \in DOMAIN download_requests :
                download_requests'[r] = download_requests[r]
          /\ OtherTablesUnchanged]_vars

\* C14 witness: two requests of one user for one document made at the same
\* time are both stored, pending
RequestCreationWitness ==
    /\ resp.op = "request-download" /\ resp.body = "redirect" /\ resp.to = "/view"
    /\ \E a, b \in Rows(resp.id, session.user) :
          /\ a # b
          /\ download_requests[a].requested_at = download_requests[b].requested_at
          /\ download_requests[a].status = "pending"
          /\ download_requests[b].status = "pending"

\* C15 No row when an accepted grant exists: a request-download by a user
\* who holds an accepted row for the document adds no row
NoRequestWhenGranted ==
    [][(Handled("request-download") /\ requireLogin
            /\ HasAccepted(resp'.id, session.user))
          => download_requests' = download_requests]_vars

\* C16 Request failure is a no-op: a request-download for a document id that
\* does not exist answers 'Request already sent', and whenever that is the
\* answer no table has changed
RequestFailureNoOp ==
    [][Handled("request-download") =>
          /\ (requireLogin /\ resp'.id \notin DOMAIN pdfs)
                => resp'.body = "Request already sent"
          /\ resp'.body = "Request already sent" => UNCHANGED tables]_vars

\* C16 witness: a request for a document id that does not exist was answered
\* 'Request already sent' while the table holds a row of an earlier request
RequestFailureNoOpWitness ==
    /\ resp.op = "request-download"
    /\ resp.body = "Request already sent"
    /\ resp.id \notin DOMAIN pdfs
    /\ download_requests # << >>

-----------------------------------------------------------------------------
(* Properties of the writes of an upload *)

\* C17 Upload success requires both writes: an upload answers success only
\* in a step that has stored one document row and one upload_history row
UploadNeedsBothWrites ==
    [][(Handled("upload") /\ "success" \in DOMAIN resp' /\ resp'.success) =>
          /\ Cardinality(DOMAIN pdfs' \ DOMAIN pdfs) = 1
          /\ Len(upload_history') = Len(upload_history) + 1]_vars

-----------------------------------------------------------------------------
(* Properties of sessions and roles *)

WorkflowRoutes == {"request-download", "download", "request-status", "upload", "delete",
                   "update-course", "toggle-private", "download-action"}

AdminRoutes == {"upload", "delete", "update-course", "toggle-private", "download-action"}

\* the step answered with a redirect to the login page and changed neither a
\* table nor the session
TurnedAway ==
    /\ resp' = [op |-> resp'.op, body |-> "redirect", to |-> "/login"]
    /\ UNCHANGED <<tables, session>>

\* C18 Authorization frame: a workflow route called without a session, and
\* an admin route called with the session of a user who is not the admin,
\* redirects to the login page and changes no row
AuthorizationFrame ==
    [][/\ (now' = now /\ resp'.op \in WorkflowRoutes /\ session.user = "") => TurnedAway
       /\ (now' = now /\ resp'.op \in AdminRoutes /\ session.user # ""
                /\ session.role # "admin") => TurnedAway]_vars

\* C18 witness: a member has just been turned away from the admin decision
\* route while a pending request and a document are stored
AuthorizationFrameWitness ==
    /\ resp = [op |-> "download-action", body |-> "redirect", to |-> "/login"]
    /\ session.user = "testuser"
    /\ pdfs # << >>
    /\ \E r \in DOMAIN download_requests : download_requests[r].status = "pending"

\* the last request was let through by the admin check of its route
PassedAdminCheck ==
    /\ resp.op \in AdminRoutes
    /\ resp # [op |-> resp.op, body |-> "redirect", to |-> "/login"]

\* C19 Role derivation: whatever was registered, and whoever logged in and
\* out, a session has the role admin if and only if its user is exactly
\* 'admin'; every other session has the role user, and only the session of
\* 'admin' gets past the admin check
RoleDerivation ==
    /\ session.user # "" =>
          /\ session.user \in DOMAIN users
          /\ session.role = "admin" <=> session.user = "admin"
          /\ session.user # "admin" => session.role = "user"
    /\ PassedAdminCheck => session.user = "admin"

\* C19 witness: 'Admin' has been registered, is logged in with the role
\* user, and has just been turned away from an admin route
RoleDerivationWitness ==
    /\ session = [user |-> "Admin", role |-> "user"]
    /\ resp = [op |-> "delete", body |-> "redirect", to |-> "/login"]

-----------------------------------------------------------------------------
(* Properties of repeated decisions *)

\* C20 Last write wins on decisions: every decision the admin posts for a
\* stored request is applied and answered with the redirect, whatever the
\* row's status was: after the step the row has the posted status and the
\* time of this call as responded_at, and nothing else has changed
LastWriteWins ==
    [][(Handled("download-action") /\ session.user # "" /\ session.role = "admin"
            /\ resp'.id \in DOMAIN download_requests /\ Len(resp'.action) <= StatusLen)
          => /\ resp'.body = "redirect"
             /\ DOMAIN download_requests' = DOMAIN download_requests
             /\ download_requests'[resp'.id] =
                   [download_requests[resp'.id] EXCEPT !.status = resp'.action,
                                                       !.responded_at = now]
             /\ \A r \in DOMAIN download_requests \ {resp'.id} :
                   download_requests'[r] = download_requests[r]
             /\ OtherTablesUnchanged]_vars

\* C20 witness: a request that was accepted, and used for a download, has
\* been decided again at a later time and carries the second decision and
\* its time
LastWriteWinsWitness ==
    /\ resp.op = "download-action" /\ resp.body = "redirect"
    /\ resp.to = "/admin/download-requests"
    /\ resp.id \in DOMAIN download_requests
    /\ LET row == download_requests[resp.id]
       IN  /\ row.status = "rejected"
           /\ row.responded_at = now
           /\ row.responded_at > row.requested_at
           /\ Rows(row.pdf_id, row.username) = {resp.id}
           /\ \E i \in DOMAIN download_history :
                 /\ download_history[i].pdf_id = row.pdf_id
                 /\ download_history[i].username = row.username

-----------------------------------------------------------------------------
(* Properties of handlers that overlap *)

\* upload call c waits for its classifier call or for the rest of its handler
UploadWaiting(c) == \E r \in inflight : r.call = c /\ r.op = "upload"

\* C21 Bounded classifier call: every upload that has called the classifier
\* is eventually answered, whether or not the classifier ever answers
BoundedClassifierCall ==
    \A c \in Calls : UploadWaiting(c) ~> ~UploadWaiting(c)

\* C22 Download step order: a download attempt that does not return the
\* binary (denied, or the storage fetch failed) appends no download_history
\* row, so every download_history row belongs to a download that fetched the
\* binary
DownloadStepOrder ==
    [][(Handled("download") /\ resp'.body # "pdf")
          => download_history' = download_history]_vars

-----------------------------------------------------------------------------
(* Properties of visibility and of missing ids *)

\* a step of toggle-private that changed the visibility of a document: the
\* states before and after it differ in that flag (and the answer) only
Toggled ==
    /\ Handled("toggle-private")
    /\ pdfs' # pdfs
    /\ DOMAIN pdfs' = DOMAIN pdfs
    /\ \A id \in DOMAIN pdfs :
          [pdfs'[id] EXCEPT !.is_private = pdfs[id].is_private] = pdfs[id]
    /\ UNCHANGED <<users, nextPdfId, download_requests, nextReqId, favorites,
                   recently_viewed, download_history, upload_history, session>>

\* C23 Gate independence from visibility: in the two states on either side of
\* a visibility toggle, for every user and document, request-download is
\* refused or accepted alike, request-status can answer the same rows, and
\* the download gate is open or closed alike
GateIndependence ==
    [][Toggled =>
          \A id \in PdfIds, u \in Usernames :
              /\ (GateRows(id, u) = {}) <=> (GateRows(id, u)' = {})
              /\ LatestRows(id, u)' = LatestRows(id, u)
              /\ \A dbOk \in BOOLEAN : InsertRefused(id, dbOk)' <=> InsertRefused(id, dbOk)]_vars

\* C23 witness: a user downloads a private document with an accepted request
GateIndependenceWitness ==
    /\ Downloaded
    /\ resp.body = "pdf"
    /\ resp.id \in DOMAIN pdfs
    /\ pdfs[resp.id].is_private

DocumentRoutes == {"download", "delete", "update-course", "toggle-private"}

\* the step was answered by a route that was given an id
AnsweredFor(ops) == now' = now /\ resp'.op \in ops /\ "id" \in DOMAIN resp'

\* C24 Not-found leaves state unchanged: an admin decision for a request id
\* that is not stored, and a download, delete, category update or visibility
\* toggle for a document id that is not stored, change no row of any table
NotFoundNoOp ==
    [][/\ (AnsweredFor({"download-action"}) /\ resp'.id \notin DOMAIN download_requests)
             => UNCHANGED tables
       /\ (AnsweredFor(DocumentRoutes) /\ resp'.id \notin DOMAIN pdfs)
             => UNCHANGED tables]_vars

\* C24 witness: the admin has decided a request id that is not stored while
\* another request and a document are
NotFoundNoOpWitness ==
    /\ resp.op = "download-action" /\ resp.body = "redirect"
    /\ resp.to = "/admin/download-requests"
    /\ resp.id \notin DOMAIN download_requests
    /\ download_requests # << >>
    /\ pdfs # << >>

-----------------------------------------------------------------------------
(* Properties of faults *)

CoreRoutes == {"request-download", "download-action", "request-status", "download",
               "upload", "delete"}

\* C25 Fault conversion: whatever the database does, every core operation
\* answers; none ends with the fault thrown out of its handler and no answer
\* sent
FaultConversion ==
    (resp.op \in CoreRoutes /\ "body" \in DOMAIN resp) => resp.body # "no response"

\* C26 No automatic retry on persistence failure: a single upload request
\* stores at most one document row, whichever of its writes fails
OneDocumentPerUpload ==
    [][Handled("upload") => Cardinality(DOMAIN pdfs' \ DOMAIN pdfs) <= 1]_vars

-----------------------------------------------------------------------------
(* Properties of rows and ids *)

\* C27 Decision/timestamp consistency: a download_requests row has no
\* responded_at if and only if its status is pending
RespondedIffDecided ==
    \A r \in DOMAIN download_requests :
        download_requests[r].responded_at = NullTime
            <=> download_requests[r].status = "pending"

\* C28 No stale grants: the id of a new document has never been used before,
\* every download_requests row references a stored document, and a download
\* returns a document only to a user with an accepted row for that document;
\* so a grant for a deleted document opens no later document
NoStaleGrants ==
    [][/\ nextPdfId' >= nextPdfId
       /\ \A id \in DOMAIN pdfs' : id < nextPdfId'
       /\ \A id \in DOMAIN pdfs' \ DOMAIN pdfs : id >= nextPdfId
       /\ \A r \in DOMAIN download_requests' :
             download_requests'[r].pdf_id \in DOMAIN pdfs'
       /\ (Handled("download") /\ resp'.body = "pdf") =>
             \E r \in DOMAIN download_requests :
                 /\ download_requests[r].pdf_id = resp'.id
                 /\ download_requests[r].username = session.user
                 /\ download_requests[r].status = "accepted"
                 /\ resp'.id \in DOMAIN pdfs]_vars

\* C28 witness: after a document was deleted and another was uploaded, a
\* download of the later document is refused
NoStaleGrantsWitness ==
    /\ Downloaded
    /\ resp.body = "Not allowed"
    /\ resp.id \in DOMAIN pdfs
    /\ \E d \in DeletedIds : d < resp.id

-----------------------------------------------------------------------------
(* Properties of visibility *)

\* the step completes a toggle of a stored document
ToggleCompleted(id) ==
    /\ \E r \in PendingToggles : r.id = id /\ r \notin inflight'
    /\ id \in DOMAIN pdfs

\* C29 Toggle-private flips once per call: every completed toggle of a stored
\* document inverts its visibility, also when the read and write steps of
\* toggles interleave
ToggleFlipsOnce ==
    [][\A id \in PdfIds :
          ToggleCompleted(id) => pdfs'[id].is_private = ~pdfs[id].is_private]_vars

\* a view-history row is appended by the step
ViewLogged == Len(recently_viewed') > Len(recently_viewed)

\* C30 Private documents leave no member view trace: a non-admin's view of a
\* private document is answered 'Access denied' without a row, and no step
\* appends a view-history row of a non-admin user for a document that is
\* private at that moment
NoPrivateViewTrace ==
    [][/\ (/\ Handled("view") /\ inflight' = inflight
           /\ resp'.body \notin {"redirect", "Error loading file"}
           /\ resp'.id \in DOMAIN pdfs
           /\ pdfs[resp'.id].is_private /\ session.role # "admin")
          => resp'.body = "Access denied" /\ recently_viewed' = recently_viewed
       /\ ViewLogged =>
             LET row == recently_viewed'[Len(recently_viewed')]
             IN  RoleOf(row.username) # "admin" => ~pdfs[row.pdf_id].is_private]_vars

====
